---- MODULE Spec2Model ----
(***************************************************************************)
(* A model of patches2d::Database (src/patches.cpp, src/patches.hpp):      *)
(* the patch store (insert, erase, clear, commit), the locator, the        *)
(* guard-zone view assembler (fetch), assemble, the names of the patches   *)
(* (to_string, parse_index) and dump and load.                             *)
(*                                                                         *)
(* nd::array<double, 3> is modelled as a record [shape, data]; the array   *)
(* objects of the library are handles on reference-counted buffers, so the *)
(* model keeps a heap of buffers and the store maps an index to a buffer.  *)
(* Doubles are modelled exactly as dyadic rationals <<m, e>> = m / 2^e.    *)
(***************************************************************************)
EXTENDS Integers, Sequences, FiniteSets, TLC

VARIABLES
    patches,         \* Database::patches: Index -> buffer of the stored array
    heap,            \* the live array buffers: buffer id -> array value
    boundary_value,  \* Database::boundary_value: NoCallback or a callback
    last,            \* the last call made on the database and its outcome
    live             \* history: indices inserted successfully and not erased since

vars == <<patches, heap, boundary_value, last, live>>

----------------------------------------------------------------------------
(* Bounds of the model *)

\* largest guard depth passed to fetch
MaxGuard == 1
\* largest binary exponent of a value commit may leave in the store
MaxExp == 1

----------------------------------------------------------------------------
(* Block size and header of the database under study *)

NI == 2
NJ == 2

Fields == {"conserved", "vert_coords", "face_area_i", "face_area_j"}

FieldDescriptor(num_fields, location) ==
    [num_fields |-> num_fields, location |-> location]

header ==
    [f \in Fields |->
        CASE f = "conserved"   -> FieldDescriptor(1, "cell")
          [] f = "vert_coords" -> FieldDescriptor(1, "vert")
          [] f = "face_area_i" -> FieldDescriptor(1, "face_i")
          [] f = "face_area_j" -> FieldDescriptor(1, "face_j")]

----------------------------------------------------------------------------
(* double: exact dyadic rationals m / 2^e, kept normalised *)

RECURSIVE Pow2(_)
Pow2(n) == IF n = 0 THEN 1 ELSE 2 * Pow2(n - 1)

RECURSIVE Norm(_, _)
Norm(m, e) == IF e > 0 /\ m % 2 = 0 THEN Norm(m \div 2, e - 1) ELSE <<m, e>>

D(n) == <<n, 0>>

DAdd(a, b) ==
    LET e == IF a[2] > b[2] THEN a[2] ELSE b[2]
    IN  Norm(a[1] * Pow2(e - a[2]) + b[1] * Pow2(e - b[2]), e)

DMul(a, b) == Norm(a[1] * b[1], a[2] + b[2])

DNeg(a) == <<0 - a[1], a[2]>>

Quarter == <<1, 2>>

----------------------------------------------------------------------------
(* nd::array<double, 3> *)

Cells(shape) == (0 .. shape[1] - 1) \X (0 .. shape[2] - 1) \X (0 .. shape[3] - 1)

\* nd::array<double, 3>(shape): a new buffer, value-initialised
Zeros(shape) == [shape |-> shape, data |-> [c \in Cells(shape) |-> D(0)]]

\* nd::array<double, 3>(): the empty array
EmptyArray == Zeros(<<0, 0, 0>>)

IsEmpty(A) == A.shape[1] * A.shape[2] * A.shape[3] = 0

Fill(shape, v) == [shape |-> shape, data |-> [c \in Cells(shape) |-> D(v)]]

Ramp(shape, base) ==
    [shape |-> shape,
     data |-> [c \in Cells(shape) |-> D(base + 2 * c[1] + c[2])]]

\* A.select(_|i0|i1, _|j0|j1, _) is inside A
InRange(A, i0, i1, j0, j1) ==
    /\ 0 <= i0 /\ i0 <= i1 /\ i1 <= A.shape[1]
    /\ 0 <= j0 /\ j0 <= j1 /\ j1 <= A.shape[2]

\* the values of A.select(_|i0|i1|si, _|j0|j1|sj, _)
SelectStride(A, i0, i1, si, j0, j1, sj) ==
    LET shape == <<(i1 - i0 + si - 1) \div si, (j1 - j0 + sj - 1) \div sj, A.shape[3]>>
    IN  [shape |-> shape,
         data |-> [c \in Cells(shape) |->
                     A.data[<<i0 + si * c[1], j0 + sj * c[2], c[3]>>]]]

Select(A, i0, i1, j0, j1) == SelectStride(A, i0, i1, 1, j0, j1, 1)

\* R after R.select(_|i0|i1|si, _|j0|j1|sj, _) = B (shapes agree)
AssignStride(R, i0, i1, si, j0, j1, sj, B) ==
    [R EXCEPT !.data =
        [c \in Cells(R.shape) |->
            IF /\ i0 <= c[1] /\ c[1] < i1 /\ (c[1] - i0) % si = 0
               /\ j0 <= c[2] /\ c[2] < j1 /\ (c[2] - j0) % sj = 0
            THEN B.data[<<(c[1] - i0) \div si, (c[2] - j0) \div sj, c[3]>>]
            ELSE R.data[c]]]

Assign(R, i0, i1, j0, j1, B) == AssignStride(R, i0, i1, 1, j0, j1, 1, B)

\* the shape of R.select(_|i0|i1, _|j0|j1, _)
SliceShape(R, i0, i1, j0, j1) == <<i1 - i0, j1 - j0, R.shape[3]>>

\* A * s
Scale(A, s) == [A EXCEPT !.data = [c \in Cells(A.shape) |-> DMul(A.data[c], s)]]

\* A + B (shapes agree)
Plus(A, B) == [A EXCEPT !.data = [c \in Cells(A.shape) |-> DAdd(A.data[c], B.data[c])]]

MaxExpOf(A) ==
    IF IsEmpty(A) THEN 0
    ELSE LET es == {A.data[c][2] : c \in Cells(A.shape)}
         IN  CHOOSE e \in es : \A x \in es : x <= e

----------------------------------------------------------------------------
(* Index = (i, j, level, field) *)

Idx(i, j, p, f) == <<i, j, p, f>>

\* the caller's array object (not an index of the store)
CallerBuf == <<0, 0, -1, "caller">>

num_fields(index) == header[index[4]].num_fields

location(index) == header[index[4]].location

expected_shape(index) ==
    CASE location(index) = "cell"   -> <<NI + 0, NJ + 0, num_fields(index)>>
      [] location(index) = "vert"   -> <<NI + 1, NJ + 1, num_fields(index)>>
      [] location(index) = "face_i" -> <<NI + 1, NJ + 0, num_fields(index)>>
      [] location(index) = "face_j" -> <<NI + 0, NJ + 1, num_fields(index)>>

\* C++ integer division and remainder (truncation toward zero)
CDiv(a, b) == IF a >= 0 THEN a \div b ELSE 0 - ((0 - a) \div b)
CRem(a, b) == a - b * CDiv(a, b)

coarsen(index) == <<CDiv(index[1], 2), CDiv(index[2], 2), index[3] - 1, index[4]>>

refine(index) ==
    LET i == index[1]
        j == index[2]
        p == index[3]
        f == index[4]
    IN  << <<i * 2 + 0, j * 2 + 0, p + 1, f>>,
           <<i * 2 + 0, j * 2 + 1, p + 1, f>>,
           <<i * 2 + 1, j * 2 + 0, p + 1, f>>,
           <<i * 2 + 1, j * 2 + 1, p + 1, f>> >>

----------------------------------------------------------------------------
(* The store *)

Stored(index) == index \in DOMAIN patches

\* patches.count(index) in a store ps
Count(ps, index) == IF index \in DOMAIN ps THEN 1 ELSE 0

\* patches.at(index) (index is stored)
At(index) == heap[patches[index]]

\* the store as its callers see it: index -> array value
StoreView == [index \in DOMAIN patches |-> heap[patches[index]]]

\* a map without the key k
Without(m, k) == [x \in DOMAIN m \ {k} |-> m[x]]

\* the buffers that stay alive: the caller's, and those a stored array holds
Collect(h, ps) ==
    [b \in {x \in DOMAIN h : x = CallerBuf \/ \E index \in DOMAIN ps : ps[index] = x}
        |-> h[b]]

NoCallback == 0

NoArgs == <<0, 0, 0, 0>>

Outcome(op, index, args, rk, status, res, calls) ==
    [op |-> op, index |-> index, args |-> args, rk |-> rk,
     status |-> status, res |-> res, calls |-> calls]

\* the outcome of a call of which only the status is observed
Done(op, status) == Outcome(op, CallerBuf, NoArgs, D(0), status, EmptyArray, << >>)

Init ==
    /\ patches = << >>
    /\ heap = (CallerBuf :> EmptyArray)
    /\ boundary_value = NoCallback
    /\ live = {}
    /\ last = Done("init", "ok")

\* Database::set_boundary_value
set_boundary_value(b) ==
    /\ boundary_value' = b
    /\ last' = Done("set_boundary_value", "ok")
    /\ UNCHANGED <<patches, heap, live>>

\* Database::check_shape: the array's shape is the expected one (else it throws)
check_shape(array, index) == array.shape = expected_shape(index)

\* Database::insert with the caller's buffer stored in place of a copy of it
insert_shared(h0, index, eager) ==
    IF check_shape(h0[CallerBuf], index)
    THEN LET ps == (index :> CallerBuf) @@ patches
         IN  [patches |-> ps, heap |-> Collect(h0, ps), status |-> "ok"]
    ELSE [patches |-> patches, heap |-> h0, status |-> "shape"]

\* The body of Database::insert, on a heap h0 in which the caller's array is
\* the argument:
\*   patches[index].become(check_shape(data, index).copy());
\* The order in which patches[index] and check_shape(...) are evaluated is
\* the compiler's choice (C++14: unspecified; C++17: patches[index] first).
\* eager: patches[index] is evaluated first, so that when check_shape throws
\* an index that was absent already holds a default-constructed empty array.
insert_result(h0, index, eager) ==
    IF check_shape(h0[CallerBuf], index)
    THEN LET ps == (index :> index) @@ patches
         IN  [patches |-> ps,
              heap |-> Collect((index :> h0[CallerBuf]) @@ h0, ps),
              status |-> "ok"]
    ELSE IF eager /\ ~Stored(index)
         THEN [patches |-> (index :> index) @@ patches,
               heap |-> (index :> EmptyArray) @@ h0,
               status |-> "shape"]
         ELSE [patches |-> patches, heap |-> h0, status |-> "shape"]

\* Database::insert: the caller holds an array with the contents data, calls
\* insert(index, array) and keeps its array
insert(index, data) ==
    \E eager \in BOOLEAN :
        LET r == insert_result([heap EXCEPT ![CallerBuf] = data], index, eager)
        IN  /\ patches' = r.patches
            /\ heap' = r.heap
            /\ live' = IF r.status = "ok" THEN live \cup {index} ELSE live
            /\ last' = Outcome("insert", index, NoArgs, D(0), r.status, EmptyArray, << >>)
            /\ UNCHANGED boundary_value

\* Database::insert called on a temporary array, as Database::load does:
\*   database.insert(parse_index(ind), ser.read_array(ind));
insert_temporary(index, data) ==
    \E eager \in BOOLEAN :
        LET r == insert_result([heap EXCEPT ![CallerBuf] = data], index, eager)
        IN  /\ patches' = r.patches
            /\ heap' = [r.heap EXCEPT ![CallerBuf] = EmptyArray]
            /\ live' = IF r.status = "ok" THEN live \cup {index} ELSE live
            /\ last' = Done("insert", r.status)
            /\ UNCHANGED boundary_value

\* Database::erase
erase(index) ==
    /\ patches' = Without(patches, index)
    /\ heap' = Collect(heap, patches')
    /\ live' = live \ {index}
    /\ last' = Done("erase", "ok")
    /\ UNCHANGED boundary_value

\* Database::clear
clear ==
    /\ patches' = << >>
    /\ heap' = Collect(heap, patches')
    /\ live' = {}
    /\ last' = Done("clear", "ok")
    /\ UNCHANGED boundary_value

\* the value commit computes for its target:
\* data (rk_factor == 0.0), else data * (1 - rk_factor) + target * rk_factor
Blend(data, target, rk_factor) ==
    IF rk_factor = D(0) THEN data
    ELSE Plus(Scale(data, DAdd(D(1), DNeg(rk_factor))), Scale(target, rk_factor))

\* Database::commit: the caller holds an array with the contents data and
\* calls commit(index, array, rk_factor). target shares the buffer of the
\* stored array, and target = ... copies the values into that buffer; both
\* the sum and the assignment need arrays of one shape.
commit(index, data, rk_factor) ==
    LET h0 == [heap EXCEPT ![CallerBuf] = data]
    IN  IF ~Stored(index)
        THEN /\ heap' = h0
             /\ last' = Outcome("commit", index, NoArgs, rk_factor, "missing",
                                EmptyArray, << >>)
             /\ UNCHANGED <<patches, boundary_value, live>>
        ELSE LET target == h0[patches[index]]
             IN  IF data.shape # target.shape
                 THEN /\ heap' = h0
                      /\ last' = Outcome("commit", index, NoArgs, rk_factor, "shape",
                                         EmptyArray, << >>)
                      /\ UNCHANGED <<patches, boundary_value, live>>
                 ELSE /\ MaxExpOf(Blend(data, target, rk_factor)) <= MaxExp
                      /\ heap' = [h0 EXCEPT ![patches[index]] =
                                     Blend(data, target, rk_factor)]
                      /\ last' = Outcome("commit", index, NoArgs, rk_factor, "ok",
                                         EmptyArray, << >>)
                      /\ UNCHANGED <<patches, boundary_value, live>>

\* the caller writes into its own array after the call it made
caller_write(data) ==
    /\ heap' = [heap EXCEPT ![CallerBuf] = data]
    /\ last' = Done("caller_write", "ok")
    /\ UNCHANGED <<patches, boundary_value, live>>

----------------------------------------------------------------------------
(* Transfer operators and the locator.  A call that throws yields Thrown.  *)

Ok(A) == [status |-> "ok", val |-> A]

Thrown == [status |-> "err", val |-> EmptyArray]

\* Database::quadrant
quadrant(A, I, J) ==
    LET b == CASE I = 0 /\ J = 0 -> <<0, NI \div 2, 0, NJ \div 2>>
               [] I = 0 /\ J = 1 -> <<0, NI \div 2, NJ \div 2, NJ>>
               [] I = 1 /\ J = 0 -> <<NI \div 2, NI, 0, NJ \div 2>>
               [] I = 1 /\ J = 1 -> <<NI \div 2, NI, NJ \div 2, NJ>>
               [] OTHER -> << >>
    IN  IF b = << >> THEN Thrown
        ELSE IF ~InRange(A, b[1], b[2], b[3], b[4]) THEN Thrown
        ELSE Ok(Select(A, b[1], b[2], b[3], b[4]))

\* The body of Database::prolongation in a database of block size ni, nj
prolongation_of(ni, nj, A) ==
    LET res == Zeros(<<ni, nj, A.shape[3]>>)
        ok(a, b) == SelectStride(res, a, ni, 2, b, nj, 2).shape = A.shape
    IN  IF ~(ok(0, 0) /\ ok(0, 1) /\ ok(1, 0) /\ ok(1, 1)) THEN Thrown
        ELSE Ok(AssignStride(AssignStride(AssignStride(AssignStride(res,
                    0, ni, 2, 0, nj, 2, A),
                    0, ni, 2, 1, nj, 2, A),
                    1, ni, 2, 0, nj, 2, A),
                    1, ni, 2, 1, nj, 2, A))

\* Database::prolongation
prolongation(A) == prolongation_of(NI, NJ, A)

\* Database::restriction with the last of the four strided selections left
\* out of the sum
restriction_three(A) ==
    LET mi == A.shape[1]
        mj == A.shape[2]
        B == << SelectStride(A, 0, mi, 2, 0, mj, 2),
                SelectStride(A, 0, mi, 2, 1, mj, 2),
                SelectStride(A, 1, mi, 2, 0, mj, 2) >>
    IN  IF \E n \in 2 .. 3 : B[n].shape # B[1].shape THEN Thrown
        ELSE Ok(Scale(Plus(Plus(B[1], B[2]), B[3]), Quarter))

\* Database::restriction
restriction(A) ==
    LET mi == A.shape[1]
        mj == A.shape[2]
        B == << SelectStride(A, 0, mi, 2, 0, mj, 2),
                SelectStride(A, 0, mi, 2, 1, mj, 2),
                SelectStride(A, 1, mi, 2, 0, mj, 2),
                SelectStride(A, 1, mi, 2, 1, mj, 2) >>
    IN  IF \E n \in 2 .. 4 : B[n].shape # B[1].shape THEN Thrown
        ELSE Ok(Scale(Plus(Plus(Plus(B[1], B[2]), B[3]), B[4]), Quarter))

\* Database::contains_all
contains_all(indexes) == \A n \in DOMAIN indexes : Count(patches, indexes[n]) # 0

\* Database::tile (the four indexes are stored)
tile(indexes) ==
    LET res == Zeros(<<NI * 2, NJ * 2, num_fields(indexes[1])>>)
    IN  IF \E n \in 1 .. 4 : At(indexes[n]).shape # <<NI, NJ, res.shape[3]>>
        THEN Thrown
        ELSE Ok(Assign(Assign(Assign(Assign(res,
                    0, NI * 1, 0, NJ * 1, At(indexes[1])),
                    0, NI * 1, NJ, NJ * 2, At(indexes[2])),
                    NI, NI * 2, 0, NJ * 1, At(indexes[3])),
                    NI, NI * 2, NJ, NJ * 2, At(indexes[4])))

\* Database::locate
locate(index) ==
    IF Count(patches, index) # 0 THEN Ok(At(index))
    ELSE IF Count(patches, coarsen(index)) # 0
    THEN LET q == quadrant(At(coarsen(index)), CRem(index[1], 2), CRem(index[2], 2))
         IN  IF q.status = "ok" THEN prolongation(q.val) ELSE Thrown
    ELSE IF contains_all(refine(index))
    THEN LET t == tile(refine(index))
         IN  IF t.status = "ok" THEN restriction(t.val) ELSE Thrown
    ELSE Ok(EmptyArray)

----------------------------------------------------------------------------
(* The view assembler *)

Edges == <<"il", "ir", "jl", "jr">>

EdgeNo(e) == CHOOSE n \in 1 .. 4 : Edges[n] = e

\* the callbacks a caller may register: callback v answers every request
\* with a slab of the shape its contract asks for, filled with v + EdgeNo
Callbacks == {70}

CallbackSlab(b, index, e, depth, patch) ==
    IF e \in {"il", "ir"}
    THEN Fill(<<depth, patch.shape[2], patch.shape[3]>>, b + EdgeNo(e))
    ELSE Fill(<<patch.shape[1], depth, patch.shape[3]>>, b + EdgeNo(e))

\* Li, Ri, Lj, Rj of fetch
Neighbor(index, e) ==
    LET i == index[1]
        j == index[2]
        p == index[3]
        f == index[4]
    IN  CASE e = "il" -> <<i - 1, j, p, f>>
          [] e = "ir" -> <<i + 1, j, p, f>>
          [] e = "jl" -> <<i, j - 1, p, f>>
          [] e = "jr" -> <<i, j + 1, p, f>>

\* the guard depth of an edge, ng = <<ngil, ngir, ngjl, ngjr>>
Depth(ng, e) == ng[EdgeNo(e)]

\* the bounds <<i0, i1, j0, j1>> of the slice fetch takes from the neighbor
NeighborSlice(neighbor, e, depth) ==
    CASE e = "il" -> <<NI - depth, NI, 0, neighbor.shape[2]>>
      [] e = "ir" -> <<0, depth, 0, neighbor.shape[2]>>
      [] e = "jl" -> <<0, neighbor.shape[1], NJ - depth, NJ>>
      [] e = "jr" -> <<0, neighbor.shape[1], 0, depth>>

\* the il slice placed without the offset of the jl guard zones
EdgePlaceNoOffset(ng, e) ==
    LET mi == NI + ng[1] + ng[2]
        mj == NJ + ng[3] + ng[4]
    IN  CASE e = "il" -> <<0, ng[1], 0, NJ>>
          [] e = "ir" -> <<mi - ng[2], mi, ng[3], NJ + ng[3]>>
          [] e = "jl" -> <<ng[1], NI + ng[1], 0, ng[3]>>
          [] e = "jr" -> <<ng[1], NI + ng[1], mj - ng[4], mj>>

\* the bounds <<i0, i1, j0, j1>> of the region of the result an edge fills
EdgePlace(ng, e) ==
    LET mi == NI + ng[1] + ng[2]
        mj == NJ + ng[3] + ng[4]
    IN  CASE e = "il" -> <<0, ng[1], ng[3], NJ + ng[3]>>
          [] e = "ir" -> <<mi - ng[2], mi, ng[3], NJ + ng[3]>>
          [] e = "jl" -> <<ng[1], NI + ng[1], 0, ng[3]>>
          [] e = "jr" -> <<ng[1], NI + ng[1], mj - ng[4], mj>>

\* the bounds of the region of the result the central patch fills
InteriorPlace(ng) == <<ng[1], NI + ng[1], ng[3], NJ + ng[3]>>

FetchState(status, res, calls) == [status |-> status, res |-> res, calls |-> calls]

\* one of the four edge blocks of fetch, from the state acc the blocks
\* before it have left
FetchEdge(acc, index, ng, e) ==
    LET depth == Depth(ng, e)
        n == locate(Neighbor(index, e))
        place == EdgePlace(ng, e)
    IN  IF acc.status # "ok" \/ ~(depth > 0) THEN acc
        ELSE IF n.status # "ok" THEN FetchState("locate", EmptyArray, acc.calls)
        ELSE IF IsEmpty(n.val) /\ boundary_value = NoCallback
        THEN FetchState("callback", EmptyArray, acc.calls)
        ELSE LET s == NeighborSlice(n.val, e, depth)
                 invoked == IsEmpty(n.val)
                 calls == IF invoked
                          THEN Append(acc.calls,
                                      [index |-> index, edge |-> e, depth |-> depth,
                                       patch |-> At(index)])
                          ELSE acc.calls
             IN  IF ~invoked /\ ~InRange(n.val, s[1], s[2], s[3], s[4])
                 THEN FetchState("slice", EmptyArray, calls)
                 ELSE LET bv == IF invoked
                                THEN CallbackSlab(boundary_value, index, e, depth,
                                                  At(index))
                                ELSE Select(n.val, s[1], s[2], s[3], s[4])
                      IN  IF bv.shape # SliceShape(acc.res, place[1], place[2],
                                                   place[3], place[4])
                          THEN FetchState("shape", EmptyArray, calls)
                          ELSE FetchState("ok",
                                          Assign(acc.res, place[1], place[2],
                                                 place[3], place[4], bv),
                                          calls)

\* the first k edge blocks of fetch, in the order il, ir, jl, jr
RECURSIVE FetchEdges(_, _, _, _)
FetchEdges(acc, index, ng, k) ==
    IF k = 0 THEN acc
    ELSE FetchEdge(FetchEdges(acc, index, ng, k - 1), index, ng, Edges[k])

\* Database::fetch(index, ngil, ngir, ngjl, ngjr), ng = <<ngil, ngir, ngjl, ngjr>>
fetch_result(index, ng) ==
    IF location(index) # "cell" THEN FetchState("location", EmptyArray, << >>)
    ELSE LET mi == NI + ng[1] + ng[2]
             mj == NJ + ng[3] + ng[4]
             res == Zeros(<<mi, mj, num_fields(index)>>)
             c == InteriorPlace(ng)
         IN  IF ~Stored(index) THEN FetchState("missing", EmptyArray, << >>)
             ELSE IF At(index).shape # SliceShape(res, c[1], c[2], c[3], c[4])
             THEN FetchState("shape", EmptyArray, << >>)
             ELSE FetchEdges(FetchState("ok", Assign(res, c[1], c[2], c[3], c[4], At(index)),
                                        << >>),
                             index, ng, 4)

\* Database::fetch(index, guard)
fetch_guard_result(index, guard) == fetch_result(index, <<guard, guard, guard, guard>>)

\* a call of fetch(index, ngil, ngir, ngjl, ngjr)
fetch(index, ng) ==
    LET r == fetch_result(index, ng)
    IN  /\ last' = Outcome("fetch", index, ng, D(0), r.status, r.res, r.calls)
        /\ UNCHANGED <<patches, heap, boundary_value, live>>

\* a call of fetch(index, guard)
fetch_guard(index, guard) ==
    LET r == fetch_guard_result(index, guard)
    IN  /\ last' = Outcome("fetch_guard", index, <<guard, guard, guard, guard>>, D(0),
                           r.status, r.res, r.calls)
        /\ UNCHANGED <<patches, heap, boundary_value, live>>

----------------------------------------------------------------------------
(* Database::assemble *)

\* mi, mj of assemble: the shape of the result for a rectangle of blocks
AssembleShape(i0, i1, j0, j1, field) ==
    LET loc == header[field].location
    IN  CASE loc = "cell"   -> <<(i1 - i0) * NI + 0, (j1 - j0) * NJ + 0, header[field].num_fields>>
          [] loc = "vert"   -> <<(i1 - i0) * NI + 1, (j1 - j0) * NJ + 1, header[field].num_fields>>
          [] loc = "face_i" -> <<(i1 - i0) * NI + 1, (j1 - j0) * NJ + 0, header[field].num_fields>>
          [] loc = "face_j" -> <<(i1 - i0) * NI + 0, (j1 - j0) * NJ + 1, header[field].num_fields>>

\* di, dj of assemble: the extra row and column the last patch of an axis gives
AssembleExtra(i, i1, j, j1, field) ==
    LET loc == header[field].location
        lasti == IF i = i1 - 1 THEN 1 ELSE 0
        lastj == IF j = j1 - 1 THEN 1 ELSE 0
    IN  CASE loc = "cell"   -> <<lasti * 0, lastj * 0>>
          [] loc = "vert"   -> <<lasti * 1, lastj * 1>>
          [] loc = "face_i" -> <<lasti * 1, lastj * 0>>
          [] loc = "face_j" -> <<lasti * 0, lastj * 1>>

\* R after R.select(_|i0|i1, _|j0|j1, _) = B when the selection is not
\* inside R and the library does not check it: every value of B is written at
\* its address in the row-major buffer of R, and a write that falls outside
\* of the buffer does not reach R
AssignUnchecked(R, i0, j0, B) ==
    LET mj == R.shape[2]
        K == R.shape[3]
        addr(x, y, k) == (x * mj + y) * K + k
        src(c) == {b \in Cells(B.shape) :
                      addr(i0 + b[1], j0 + b[2], b[3]) = addr(c[1], c[2], c[3])}
    IN  [R EXCEPT !.data =
            [c \in Cells(R.shape) |->
                IF src(c) # {} THEN B.data[CHOOSE b \in src(c) : TRUE]
                ELSE R.data[c]]]

\* the body of the loops of assemble for the patch (i, j), from the state acc
\* the patches before it have left; rect = <<i0, i1, j0, j1>>.
\* checked: the array library rejects a selection that is not inside the array
AssembleBlock(acc, rect, level, field, checked, i, j) ==
    LET d == AssembleExtra(i, rect[2], j, rect[4], field)
        index == <<i, j, level, field>>
        lo == <<i * NI, j * NJ>>
        hi == <<(i + 1) * NI + d[1], (j + 1) * NJ + d[2]>>
    IN  IF acc.status # "ok" THEN acc
        ELSE IF ~Stored(index) THEN FetchState("missing", EmptyArray, << >>)
        ELSE IF ~InRange(At(index), 0, NI + d[1], 0, NJ + d[2])
        THEN FetchState("slice", EmptyArray, << >>)
        ELSE IF InRange(acc.res, lo[1], hi[1], lo[2], hi[2])
        THEN FetchState("ok",
                        Assign(acc.res, lo[1], hi[1], lo[2], hi[2],
                               Select(At(index), 0, NI + d[1], 0, NJ + d[2])),
                        << >>)
        ELSE IF checked THEN FetchState("range", EmptyArray, << >>)
        ELSE FetchState("ok",
                        AssignUnchecked(acc.res, lo[1], lo[2],
                                        Select(At(index), 0, NI + d[1], 0, NJ + d[2])),
                        << >>)

\* the first k passes of the loops of assemble: i from i0 to i1 - 1 and, for
\* each i, j from j0 to j1 - 1
RECURSIVE AssembleBlocks(_, _, _, _, _, _)
AssembleBlocks(acc, rect, level, field, checked, k) ==
    IF k = 0 THEN acc
    ELSE AssembleBlock(AssembleBlocks(acc, rect, level, field, checked, k - 1),
                       rect, level, field, checked,
                       rect[1] + ((k - 1) \div (rect[4] - rect[3])),
                       rect[3] + ((k - 1) % (rect[4] - rect[3])))

\* Database::assemble(i0, i1, j0, j1, level, field), rect = <<i0, i1, j0, j1>>
\* with i0 < i1 and j0 < j1
assemble_result(rect, level, field, checked) ==
    AssembleBlocks(
        FetchState("ok",
                   Zeros(AssembleShape(rect[1], rect[2], rect[3], rect[4], field)),
                   << >>),
        rect, level, field, checked,
        (rect[2] - rect[1]) * (rect[4] - rect[3]))

\* a call of assemble(i0, i1, j0, j1, level, field)
assemble(rect, level, field) ==
    \E checked \in BOOLEAN :
        LET r == assemble_result(rect, level, field, checked)
        IN  /\ last' = Outcome("assemble", <<rect[1], rect[3], level, field>>, rect,
                               D(0), r.status, r.res, << >>)
            /\ UNCHANGED <<patches, heap, boundary_value, live>>

----------------------------------------------------------------------------
(* The names of the patches: to_string(Index) and parse_index.  A          *)
(* std::string is a sequence of characters.                                 *)

DigitChars == <<"0", "1", "2", "3", "4", "5", "6", "7", "8", "9">>

IsDigit(ch) == \E d \in 1 .. 10 : DigitChars[d] = ch

DigitVal(ch) == (CHOOSE d \in 1 .. 10 : DigitChars[d] = ch) - 1

\* the decimal digits of n >= 0
RECURSIVE Digits(_)
Digits(n) ==
    IF n < 10 THEN <<DigitChars[n + 1]>>
    ELSE Append(Digits(n \div 10), DigitChars[(n % 10) + 1])

\* std::to_string(int)
IntToString(n) == IF n < 0 THEN <<"-">> \o Digits(0 - n) ELSE Digits(n)

\* to_string(Field)
FieldName(field) ==
    CASE field = "conserved"   -> <<"c", "o", "n", "s", "e", "r", "v", "e", "d">>
      [] field = "vert_coords" -> <<"v", "e", "r", "t", "_", "c", "o", "o", "r", "d", "s">>
      [] field = "face_area_i" -> <<"f", "a", "c", "e", "_", "a", "r", "e", "a", "_", "i">>
      [] field = "face_area_j" -> <<"f", "a", "c", "e", "_", "a", "r", "e", "a", "_", "j">>

\* to_string(Database::Index)
to_string(index) ==
    IntToString(index[3]) \o <<".">> \o IntToString(index[1]) \o <<"-">>
        \o IntToString(index[2]) \o <<"/">> \o FieldName(index[4])

\* std::string::npos, chosen so that npos + 1 = 0 as in size_t arithmetic
Npos == -1

\* std::string::find(ch): the position (from 0) of the first ch, or npos
Find(str, ch) ==
    IF \E n \in 1 .. Len(str) : str[n] = ch
    THEN (CHOOSE n \in 1 .. Len(str) : str[n] = ch /\ \A m \in 1 .. n - 1 : str[m] # ch) - 1
    ELSE Npos

\* std::string::substr(pos, count) with pos <= size: the characters from
\* position pos on, count of them at most (count = npos: all of them)
Substr(str, pos, count) ==
    LET end == IF count = Npos \/ pos + count > Len(str) THEN Len(str) ELSE pos + count
    IN  SubSeq(str, pos + 1, end)

\* the value of a sequence of digits
RECURSIVE DigitsValue(_)
DigitsValue(ds) ==
    IF ds = << >> THEN 0
    ELSE 10 * DigitsValue(SubSeq(ds, 1, Len(ds) - 1)) + DigitVal(ds[Len(ds)])

\* std::stoi: an optional sign and the longest run of digits after it; it
\* throws when there is no digit
stoi(str) ==
    LET signed == Len(str) > 0 /\ str[1] \in {"-", "+"}
        body == IF signed THEN Tail(str) ELSE str
        n == IF \E k \in 1 .. Len(body) : ~IsDigit(body[k])
             THEN (CHOOSE k \in 1 .. Len(body) :
                      ~IsDigit(body[k]) /\ \A m \in 1 .. k - 1 : IsDigit(body[m])) - 1
             ELSE Len(body)
        v == DigitsValue(SubSeq(body, 1, n))
    IN  IF n = 0 THEN [status |-> "err", val |-> 0]
        ELSE [status |-> "ok", val |-> IF signed /\ str[1] = "-" THEN 0 - v ELSE v]

\* parse_field: the field of that name; it throws when there is none
parse_field(str) ==
    IF \E f \in Fields : FieldName(f) = str
    THEN [status |-> "ok", val |-> CHOOSE f \in Fields : FieldName(f) = str]
    ELSE [status |-> "err", val |-> "conserved"]

\* parse_index
parse_index(str) ==
    LET dot == Find(str, ".")
        dash == Find(str, "-")
        slash == Find(str, "/")
        level == stoi(Substr(str, 0, dot))
        i == stoi(Substr(str, dot + 1, dash))
        j == stoi(Substr(str, dash + 1, slash))
        field == parse_field(Substr(str, slash + 1, Npos))
    IN  IF level.status = "ok" /\ i.status = "ok" /\ j.status = "ok" /\ field.status = "ok"
        THEN [status |-> "ok", val |-> <<i.val, j.val, level.val, field.val>>]
        ELSE [status |-> "err", val |-> CallerBuf]

----------------------------------------------------------------------------
(* Database::dump and Database::load, on a serializer that keeps what is   *)
(* written to it: the header, the block size, and an array under each name *)

\* what Database::dump writes to the serializer
dump_result ==
    [header |-> header,
     block_size |-> <<NI, NJ>>,
     arrays |-> [name \in {to_string(index) : index \in DOMAIN patches} |->
                    At(CHOOSE index \in DOMAIN patches : to_string(index) = name)]]

\* a call of dump(ser)
dump ==
    /\ last' = Outcome("dump", CallerBuf, NoArgs, D(0), "ok", dump_result, << >>)
    /\ UNCHANGED <<patches, heap, boundary_value, live>>

\* The database Database::load builds from what the serializer holds: every
\* name is parsed and its array inserted at the index parsed. Two names that
\* parse to one index overwrite each other in the order in which the
\* serializer lists them: pick maps an index to the name listed last.
load_result(ser, pick) ==
    LET names == DOMAIN ser.arrays
    IN  IF \E name \in names : parse_index(name).status # "ok"
        THEN [status |-> "parse", ni |-> ser.block_size[1], nj |-> ser.block_size[2],
              header |-> ser.header, patches |-> << >>]
        ELSE IF \E name \in names :
                    ser.arrays[name].shape # expected_shape(parse_index(name).val)
        THEN [status |-> "shape", ni |-> ser.block_size[1], nj |-> ser.block_size[2],
              header |-> ser.header, patches |-> << >>]
        ELSE [status |-> "ok", ni |-> ser.block_size[1], nj |-> ser.block_size[2],
              header |-> ser.header,
              patches |-> [index \in DOMAIN pick |-> ser.arrays[pick[index]]]]

\* the orders of a serializer's list: for each index parsed, one of the
\* names that parse to it
Picks(ser) ==
    LET names == {name \in DOMAIN ser.arrays : parse_index(name).status = "ok"}
        targets == {parse_index(name).val : name \in names}
    IN  {pick \in [targets -> names] :
            \A index \in targets : parse_index(pick[index]).val = index}

\* a call of Database::load(ser) on the serializer the last dump has written
load ==
    /\ last.op = "dump"
    /\ \E pick \in Picks(last.res) :
          LET r == load_result(last.res, pick)
          IN  last' = Outcome("load", CallerBuf, NoArgs, D(0), r.status, r, << >>)
    /\ UNCHANGED <<patches, heap, boundary_value, live>>

----------------------------------------------------------------------------
(* The store specification: one cell-centered index and one index of each  *)
(* other mesh location                                                      *)

StoreIdx ==
    { Idx(0, 0, 0, "conserved"), Idx(0, 0, 0, "vert_coords"),
      Idx(0, 0, 0, "face_area_i"), Idx(0, 0, 0, "face_area_j") }

StoreData ==
    { Fill(<<2, 2, 1>>, 8), Ramp(<<2, 2, 1>>, 1),
      Ramp(<<3, 3, 1>>, 1), Ramp(<<3, 2, 1>>, 1), Ramp(<<2, 3, 1>>, 1),
      EmptyArray }

RkFactors == { D(0), Quarter, D(1) }

Next ==
    \/ \E index \in StoreIdx, data \in StoreData : insert(index, data)
    \/ \E index \in StoreIdx, data \in StoreData, rk \in RkFactors :
          commit(index, data, rk)
    \/ \E index \in StoreIdx : erase(index)
    \/ clear
    \/ \E data \in StoreData : caller_write(data)

Spec == Init /\ [][Next]_vars

----------------------------------------------------------------------------
(* The view specification: two coarse patches and three of the children of *)
(* the second one, loaded as Database::load does                            *)

FetchIdx ==
    { Idx(0, 0, 0, "conserved"), Idx(1, 0, 0, "conserved"),
      Idx(2, 0, 1, "conserved"), Idx(2, 1, 1, "conserved"),
      Idx(3, 0, 1, "conserved") }

\* the contents of the patch at index: a different value in every cell
PatchData(index) ==
    Ramp(expected_shape(index), 1000 * index[3] + 100 * index[1] + 10 * index[2] + 1)

\* an array no cell-centered index accepts
BadData == Ramp(<<NI + 1, NJ, 1>>, 1)

Guards == 0 .. (IF MaxGuard < NI THEN MaxGuard ELSE NI)

\* fetch is a const method: it leaves the database as it found it, so the
\* calls that follow a fetch reach no database state that the calls before it
\* do not reach. A run of this specification ends with the fetch it observes.
Observed == last.op \in {"fetch", "fetch_guard"}

NextFetch ==
    \/ \E index \in FetchIdx : ~Observed /\ insert_temporary(index, PatchData(index))
    \/ \E index \in FetchIdx : ~Observed /\ insert_temporary(index, BadData)
    \/ \E index \in FetchIdx : ~Observed /\ erase(index)
    \/ \E b \in Callbacks : ~Observed /\ set_boundary_value(b)
    \/ \E index \in FetchIdx, ng \in Guards \X Guards \X Guards \X Guards :
          ~Observed /\ fetch(index, ng)
    \/ \E index \in FetchIdx, guard \in Guards : ~Observed /\ fetch_guard(index, guard)

SpecFetch == Init /\ [][NextFetch]_vars

----------------------------------------------------------------------------
(* The assembly specification: patches of every mesh location at level 0,  *)
(* loaded as Database::load does, and rectangles of blocks around them      *)

\* largest block index that bounds a rectangle passed to assemble
MaxBlock == 2

AssembleIdx ==
    { Idx(-1, 0, 0, "conserved"), Idx(0, 0, 0, "conserved"),
      Idx(1, 0, 0, "conserved"), Idx(0, 1, 0, "conserved"),
      Idx(0, 0, 0, "vert_coords"), Idx(1, 0, 0, "vert_coords"),
      Idx(0, 1, 0, "vert_coords"),
      Idx(0, 0, 0, "face_area_i"), Idx(1, 0, 0, "face_area_i"),
      Idx(0, 0, 0, "face_area_j"), Idx(0, 1, 0, "face_area_j") }

\* the contents of the patch at index: a different value in every cell of
\* every patch
BlockData(index) ==
    LET shape == expected_shape(index)
    IN  [shape |-> shape,
         data |-> [c \in Cells(shape) |->
                      D(100 * index[1] + 10 * index[2] + 4 * c[1] + c[2] + 1)]]

\* the rectangles <<i0, i1, j0, j1>> with i0 < i1 and j0 < j1
Rects ==
    {r \in (-1 .. MaxBlock) \X (-1 .. MaxBlock) \X (0 .. MaxBlock) \X (0 .. MaxBlock) :
        r[1] < r[2] /\ r[3] < r[4]}

\* assemble is a const method: a run ends with the call it observes
Assembled == last.op = "assemble"

NextAssemble ==
    \/ \E index \in AssembleIdx :
          ~Assembled /\ insert_temporary(index, BlockData(index))
    \/ \E index \in AssembleIdx : ~Assembled /\ erase(index)
    \/ \E rect \in Rects, field \in Fields : ~Assembled /\ assemble(rect, 0, field)

SpecAssemble == Init /\ [][NextAssemble]_vars

----------------------------------------------------------------------------
(* The serialization specification: patches with indices of either sign    *)
(* and of one and two digits, dumped and loaded again                       *)

DumpIdx ==
    { Idx(0, 0, 0, "conserved"), Idx(3, 10, 1, "conserved"),
      Idx(1, -1, 0, "vert_coords"), Idx(-1, 2, 0, "conserved"),
      Idx(-1, 1, 0, "conserved"), Idx(-12, 0, 1, "face_area_i"),
      Idx(10, -12, 1, "face_area_j") }

\* load is static and dump is const: a run ends with the load it observes
Loaded == last.op = "load"

NextDump ==
    \/ \E index \in DumpIdx : ~Loaded /\ insert_temporary(index, BlockData(index))
    \/ \E index \in DumpIdx : ~Loaded /\ erase(index)
    \/ ~Loaded /\ dump
    \/ ~Loaded /\ load

SpecDump == Init /\ [][NextDump]_vars

----------------------------------------------------------------------------
(* The transfer specification: the index arithmetic and the transfer       *)
(* operators, applied to indices of either sign and to arrays of the shape *)
(* of a quadrant, in databases of block sizes 2 and 4                      *)

\* largest |i|, |j| of an index passed to coarsen and refine
MaxCoord == 3
\* largest level of an index passed to coarsen and refine
MaxLevel == 2
\* largest value held by an array passed to prolongation
MaxValue == 2

TransferIdx ==
    (0 - MaxCoord .. MaxCoord) \X (0 - MaxCoord .. MaxCoord) \X (0 .. MaxLevel)
        \X {"conserved", "vert_coords"}

\* the even block sizes of the databases
BlockSizes == {2, 4}

\* the arrays of shape (ni/2, nj/2, 1)
QuadrantArrays(ni, nj) ==
    {[shape |-> <<ni \div 2, nj \div 2, 1>>, data |-> [c \in DOMAIN f |-> D(f[c])]] :
        f \in [Cells(<<ni \div 2, nj \div 2, 1>>) -> 0 .. MaxValue]}

\* a call of coarsen(index)
coarsen_call(index) ==
    /\ last' = Outcome("coarsen", index, NoArgs, D(0), "ok", coarsen(index), << >>)
    /\ UNCHANGED <<patches, heap, boundary_value, live>>

\* a call of refine(index)
refine_call(index) ==
    /\ last' = Outcome("refine", index, NoArgs, D(0), "ok", refine(index), << >>)
    /\ UNCHANGED <<patches, heap, boundary_value, live>>

\* restriction(prolongation(A)) in a database of block size ni, nj
transfer(ni, nj, A) ==
    LET P == prolongation_of(ni, nj, A)
        R == IF P.status = "ok" THEN restriction(P.val) ELSE Thrown
    IN  /\ last' = Outcome("transfer", CallerBuf, <<ni, nj, 0, 0>>, D(0), R.status,
                           [A |-> A, P |-> P.val, R |-> R.val], << >>)
        /\ UNCHANGED <<patches, heap, boundary_value, live>>

\* the operators are pure: a run ends with the call it observes
Called == last.op # "init"

NextTransfer ==
    \/ \E index \in TransferIdx : ~Called /\ coarsen_call(index)
    \/ \E index \in TransferIdx : ~Called /\ refine_call(index)
    \/ \E ni \in BlockSizes, nj \in BlockSizes :
          \E A \in QuadrantArrays(ni, nj) : ~Called /\ transfer(ni, nj, A)

SpecTransfer == Init /\ [][NextTransfer]_vars

----------------------------------------------------------------------------
(* The locator specification: two patches of level 0, a child of each at   *)
(* level 1 and the children of these at level 2, on both sides of i = 0    *)

LocateIdx ==
    { Idx(0, 0, 0, "conserved"), Idx(-1, 0, 0, "conserved"),
      Idx(0, 0, 1, "conserved"), Idx(-1, 0, 1, "conserved"),
      Idx(0, 0, 2, "conserved"), Idx(0, 1, 2, "conserved"),
      Idx(1, 0, 2, "conserved"), Idx(1, 1, 2, "conserved"),
      Idx(-2, 0, 2, "conserved"), Idx(-2, 1, 2, "conserved"),
      Idx(-1, 0, 2, "conserved"), Idx(-1, 1, 2, "conserved") }

\* the indices looked up: those above, and two that are never stored
LocateTargets ==
    LocateIdx \cup { Idx(1, 1, 1, "conserved"), Idx(1, 0, 0, "conserved") }

\* a call of locate(index)
locate_call(index) ==
    LET r == locate(index)
    IN  /\ last' = Outcome("locate", index, NoArgs, D(0), r.status, r.val, << >>)
        /\ UNCHANGED <<patches, heap, boundary_value, live>>

\* locate is a const method: a run ends with the call it observes
Located == last.op = "locate"

NextLocate ==
    \/ \E index \in LocateIdx : ~Located /\ insert_temporary(index, PatchData(index))
    \/ \E index \in LocateIdx : ~Located /\ erase(index)
    \/ \E index \in LocateTargets : ~Located /\ locate_call(index)

SpecLocate == Init /\ [][NextLocate]_vars

----------------------------------------------------------------------------
(* Properties of the store, checked under Spec *)

\* the array the caller passed to the call that last was made
Passed == heap[CallerBuf]

\* every stored array has the shape expected at its index
WellShaped == \A index \in DOMAIN patches : At(index).shape = expected_shape(index)

\* C1: an insert that fails with a shape error leaves the store as it was:
\* the same stored indices, and the same array at each of them.
C1_FailedInsertKeepsStore ==
    [][(last'.op = "insert" /\ last'.status = "shape") => StoreView' = StoreView]_vars

\* C2: in every reachable state, every stored index holds an array whose
\* shape is expected_shape(index): (ni, nj, K) for cell, (ni+1, nj+1, K) for
\* vert, (ni+1, nj, K) for face_i, (ni, nj+1, K) for face_j.
C2_StoredShapeIsExpected ==
    \A index \in DOMAIN patches :
        At(index).shape =
            CASE header[index[4]].location = "cell" ->
                    <<NI, NJ, header[index[4]].num_fields>>
              [] header[index[4]].location = "vert" ->
                    <<NI + 1, NJ + 1, header[index[4]].num_fields>>
              [] header[index[4]].location = "face_i" ->
                    <<NI + 1, NJ, header[index[4]].num_fields>>
              [] header[index[4]].location = "face_j" ->
                    <<NI, NJ + 1, header[index[4]].num_fields>>

\* C3: after a successful insert(idx, A), at(idx) equals A, idx is stored
\* once (the number of entries grows by one only if idx was absent), and a
\* later write of the caller into A changes no stored array.
C3_InsertStoresCopy ==
    [][ /\ (last'.op = "insert" /\ last'.status = "ok") =>
              /\ last'.index \in DOMAIN patches'
              /\ StoreView'[last'.index] = Passed'
              /\ DOMAIN patches' = DOMAIN patches \cup {last'.index}
              /\ Cardinality(DOMAIN patches') =
                    Cardinality(DOMAIN patches)
                        + (IF last'.index \in DOMAIN patches THEN 0 ELSE 1)
        /\ (last'.op = "caller_write") => StoreView' = StoreView
      ]_vars

\* C3 witness: an array was inserted and the caller has since written
\* other values into its own array
C3_Witness ==
    /\ last.op = "caller_write"
    /\ \E index \in live : ~IsEmpty(Passed) /\ Passed.shape = At(index).shape
                           /\ Passed # At(index)

\* data * (1 - r) + old * r, cell by cell
Mix(data, old, r) ==
    [shape |-> data.shape,
     data |-> [c \in Cells(data.shape) |->
                  DAdd(DMul(data.data[c], DAdd(D(1), DNeg(r))), DMul(old.data[c], r))]]

\* C9: for a stored cell-centered idx with old value O and data A of the
\* expected shape, commit(idx, A, r) leaves A*(1-r) + O*r at idx (A when
\* r = 0, O when r = 1) and changes no other entry; a later write of the
\* caller into A does not change the stored value.
C9_CommitBlends ==
    [][ /\ ( /\ last'.op = "commit"
             /\ Stored(last'.index)
             /\ location(last'.index) = "cell"
             /\ Passed'.shape = expected_shape(last'.index) ) =>
              /\ last'.status = "ok"
              /\ DOMAIN patches' = DOMAIN patches
              /\ \A other \in DOMAIN patches \ {last'.index} :
                    StoreView'[other] = StoreView[other]
              /\ StoreView'[last'.index] = Mix(Passed', At(last'.index), last'.rk)
              /\ (last'.rk = D(0)) => StoreView'[last'.index] = Passed'
              /\ (last'.rk = D(1)) => StoreView'[last'.index] = At(last'.index)
        /\ (last'.op = "caller_write") => StoreView' = StoreView
      ]_vars

\* C10: commit on an index that is not stored fails and leaves the store
\* unchanged (no patch is created), and a commit at idx succeeds only if an
\* insert at idx succeeded earlier with no erase(idx) or clear() since.
C10_CommitNeedsInsert ==
    [][ (last'.op = "commit") =>
            /\ (~Stored(last'.index)) =>
                  /\ last'.status # "ok"
                  /\ StoreView' = StoreView
            /\ (last'.status = "ok") => last'.index \in live
      ]_vars

\* C11: commit on a stored index validates before it changes the store: it
\* fails when the field's location is not cell and when the data's shape is
\* not expected_shape(index), and a failing commit leaves the stored value
\* as it was. (Stated for a store in which every array has its expected
\* shape.)
C11_CommitValidates ==
    [][ ( /\ last'.op = "commit"
          /\ WellShaped
          /\ Stored(last'.index)
          /\ \/ location(last'.index) # "cell"
             \/ Passed'.shape # expected_shape(last'.index) ) =>
              /\ last'.status # "ok"
              /\ StoreView' = StoreView
      ]_vars

----------------------------------------------------------------------------
(* Properties of the view assembler, checked under SpecFetch *)

Fetched == last.op \in {"fetch", "fetch_guard"}

\* the edges of the last fetch that have a positive guard depth
Needed(e) == last.args[EdgeNo(e)] > 0

\* the edges for which the callback was invoked by the last fetch
CallsFor(e) == {n \in DOMAIN last.calls : last.calls[n].edge = e}

\* the cells <<x, y>> of the region of the result that belongs to an edge
EdgeRegion(ng, e) ==
    LET mi == NI + ng[1] + ng[2]
        mj == NJ + ng[3] + ng[4]
    IN  CASE e = "il" -> (0 .. ng[1] - 1) \X (ng[3] .. ng[3] + NJ - 1)
          [] e = "ir" -> (mi - ng[2] .. mi - 1) \X (ng[3] .. ng[3] + NJ - 1)
          [] e = "jl" -> (ng[1] .. ng[1] + NI - 1) \X (0 .. ng[3] - 1)
          [] e = "jr" -> (ng[1] .. ng[1] + NI - 1) \X (mj - ng[4] .. mj - 1)

\* the cell of the neighbor patch that lies under cell <<x, y>> of an edge
\* region: the neighbor's cells next to the shared boundary
NeighborCell(ng, e, x, y) ==
    LET mi == NI + ng[1] + ng[2]
        mj == NJ + ng[3] + ng[4]
    IN  CASE e = "il" -> <<NI - ng[1] + x, y - ng[3]>>
          [] e = "ir" -> <<x - (mi - ng[2]), y - ng[3]>>
          [] e = "jl" -> <<x - ng[1], NJ - ng[3] + y>>
          [] e = "jr" -> <<x - ng[1], y - (mj - ng[4])>>

\* the four corner regions of a result with guard depths ng
Corners(ng) ==
    LET mi == NI + ng[1] + ng[2]
        mj == NJ + ng[3] + ng[4]
    IN  ((0 .. ng[1] - 1) \cup (mi - ng[2] .. mi - 1))
            \X ((0 .. ng[3] - 1) \cup (mj - ng[4] .. mj - 1))

\* C4: for a stored cell-centered idx, the array fetch returns has the shape
\* (ni+ngil+ngir, nj+ngjl+ngjr, K) and its region [ngil:ngil+ni, ngjl:ngjl+nj]
\* equals at(idx); fetch(idx, 0) equals at(idx); fetch(idx, g) equals
\* fetch(idx, g, g, g, g).
C4_FetchInterior ==
    Fetched =>
        /\ (last.status = "ok") =>
              /\ last.res.shape = <<NI + last.args[1] + last.args[2],
                                    NJ + last.args[3] + last.args[4],
                                    header[last.index[4]].num_fields>>
              /\ \A x \in 0 .. NI - 1, y \in 0 .. NJ - 1,
                    k \in 0 .. header[last.index[4]].num_fields - 1 :
                    last.res.data[<<last.args[1] + x, last.args[3] + y, k>>]
                        = At(last.index).data[<<x, y, k>>]
        /\ (Stored(last.index) /\ last.args = <<0, 0, 0, 0>>) =>
              /\ last.status = "ok"
              /\ last.res = At(last.index)
        /\ (last.op = "fetch_guard") =>
              /\ last.status = fetch_result(last.index, last.args).status
              /\ last.res = fetch_result(last.index, last.args).res

\* C5: for each edge with positive depth whose same-level neighbor is stored,
\* the callback is not invoked for that edge and the edge region of the
\* result holds the neighbor's cells next to the shared boundary; for an edge
\* with depth 0 the callback is not invoked either.
C5_EdgeFromNeighbor ==
    Fetched =>
        \A n \in 1 .. 4 :
            /\ (~Needed(Edges[n])) => CallsFor(Edges[n]) = {}
            /\ (Needed(Edges[n]) /\ Stored(Neighbor(last.index, Edges[n]))) =>
                  /\ CallsFor(Edges[n]) = {}
                  /\ (last.status = "ok") =>
                        \A c \in EdgeRegion(last.args, Edges[n]) :
                            last.res.data[<<c[1], c[2], 0>>] =
                                At(Neighbor(last.index, Edges[n])).data[
                                    <<NeighborCell(last.args, Edges[n], c[1], c[2])[1],
                                      NeighborCell(last.args, Edges[n], c[1], c[2])[2],
                                      0>>]

\* coarsen with floored halving of i and j
FlooredParent(index) == <<index[1] \div 2, index[2] \div 2, index[3] - 1, index[4]>>

\* the four children (2i+a, 2j+b, level+1) of an index
Children(index) ==
    {<<2 * index[1] + a, 2 * index[2] + b, index[3] + 1, index[4]>> : a, b \in {0, 1}}

\* neither the neighbor across edge e, nor its floored parent, nor all four
\* of its children are stored
NothingToLocate(index, e) ==
    /\ ~Stored(Neighbor(index, e))
    /\ ~Stored(FlooredParent(Neighbor(index, e)))
    /\ ~(Children(Neighbor(index, e)) \subseteq DOMAIN patches)

\* C6: for a stored cell-centered index, a registered callback and an edge
\* of positive depth for which neither the neighbor, nor its floored
\* parent, nor all four of its children are stored, fetch invokes the
\* callback exactly once for that edge, with (index, edge, depth, center
\* patch), and places the returned slab in the edge region of the result.
\* (Stated for a store in which every array has its expected shape.)
C6_CallbackWhenNothingToLocate ==
    (Fetched /\ WellShaped /\ Stored(last.index) /\ boundary_value # NoCallback) =>
        \A n \in 1 .. 4 :
            (Needed(Edges[n]) /\ NothingToLocate(last.index, Edges[n])) =>
                /\ Cardinality(CallsFor(Edges[n])) = 1
                /\ \A m \in CallsFor(Edges[n]) :
                      last.calls[m] = [index |-> last.index, edge |-> Edges[n],
                                       depth |-> last.args[n],
                                       patch |-> At(last.index)]
                /\ last.status = "ok"
                /\ \A c \in EdgeRegion(last.args, Edges[n]) :
                      last.res.data[<<c[1], c[2], 0>>] = D(boundary_value + n)

\* locate does not resolve the neighbor across edge e: it returns the empty
\* array, or throws
Unresolved(index, e) ==
    locate(Neighbor(index, e)).status # "ok" \/ IsEmpty(locate(Neighbor(index, e)).val)

\* C7: with no callback registered, a fetch that needs an edge locate cannot
\* resolve fails instead of returning an array, and a fetch on a stored
\* cell-centered index whose needed edges locate resolves succeeds.
C7_NoCallback ==
    (Fetched /\ boundary_value = NoCallback /\ Stored(last.index)) =>
        /\ (\E n \in 1 .. 4 : Needed(Edges[n]) /\ Unresolved(last.index, Edges[n]))
              => last.status # "ok"
        /\ (\A n \in 1 .. 4 : Needed(Edges[n]) => ~Unresolved(last.index, Edges[n]))
              => last.status = "ok"

\* C8: the four corner regions of the array fetch returns hold the zeros of
\* the freshly allocated result, whatever the stored patches and the
\* callback hold.
C8_CornersUntouched ==
    (Fetched /\ last.status = "ok") =>
        \A c \in Corners(last.args) : last.res.data[<<c[1], c[2], 0>>] = D(0)

\* C8 witness: a fetch with guard zones on all four edges, filled from a
\* neighbor on one edge and by the callback on another, has returned
C8_Witness ==
    /\ last.op = "fetch"
    /\ last.status = "ok"
    /\ \A n \in 1 .. 4 : last.args[n] > 0
    /\ \E n \in 1 .. 4 : CallsFor(Edges[n]) # {}
    /\ \E n \in 1 .. 4 : /\ Stored(Neighbor(last.index, Edges[n]))
                         /\ ~IsEmpty(At(Neighbor(last.index, Edges[n])))
    /\ \A c \in Cells(last.res.shape) :
          <<c[1], c[2]>> \notin Corners(last.args) => last.res.data[c] # D(0)

----------------------------------------------------------------------------
(* Properties of assemble, checked under SpecAssemble *)

\* every patch (i, j, level, field) of the rectangle rect is stored
AllStored(rect, level, field) ==
    \A i \in rect[1] .. rect[2] - 1, j \in rect[3] .. rect[4] - 1 :
        Stored(<<i, j, level, field>>)

\* the smaller of two integers
Min(a, b) == IF a < b THEN a ELSE b

\* C12: for a rectangle i0 < i1, j0 < j1 of a cell-centered field (i0 and j0
\* of any sign) whose patches are all stored, assemble returns an array of
\* shape ((i1-i0)*ni, (j1-j0)*nj, K) whose block
\* [(i-i0)*ni : (i-i0+1)*ni, (j-j0)*nj : (j-j0+1)*nj] equals the stored patch
\* (i, j); if a patch of the rectangle is missing, assemble fails. (Stated
\* for a store in which every array has its expected shape.)
C12_AssembleCells ==
    (Assembled /\ WellShaped /\ location(last.index) = "cell") =>
        LET i0 == last.args[1]
            i1 == last.args[2]
            j0 == last.args[3]
            j1 == last.args[4]
            level == last.index[3]
            field == last.index[4]
        IN  IF AllStored(last.args, level, field)
            THEN /\ last.status = "ok"
                 /\ last.res.shape =
                       <<(i1 - i0) * NI, (j1 - j0) * NJ, header[field].num_fields>>
                 /\ \A i \in i0 .. i1 - 1, j \in j0 .. j1 - 1,
                       x \in 0 .. NI - 1, y \in 0 .. NJ - 1 :
                       last.res.data[<<(i - i0) * NI + x, (j - j0) * NJ + y, 0>>]
                           = At(<<i, j, level, field>>).data[<<x, y, 0>>]
            ELSE last.status # "ok"

\* C13: for a vert, face_i or face_j field and a rectangle whose patches are
\* all stored, assemble returns (i1-i0)*ni (+1 for vert, face_i) rows and
\* (j1-j0)*nj (+1 for vert, face_j) columns; a row or column that two
\* adjacent patches share holds row or column 0 of the patch with the larger
\* index, and the extra last row or column holds that of the last patch of
\* the axis. (Stated for a store in which every array has its expected
\* shape.)
C13_AssembleShared ==
    (Assembled /\ WellShaped /\ location(last.index) # "cell"
        /\ AllStored(last.args, last.index[3], last.index[4])) =>
        LET i0 == last.args[1]
            i1 == last.args[2]
            j0 == last.args[3]
            j1 == last.args[4]
            level == last.index[3]
            field == last.index[4]
            ei == IF location(last.index) \in {"vert", "face_i"} THEN 1 ELSE 0
            ej == IF location(last.index) \in {"vert", "face_j"} THEN 1 ELSE 0
            mi == (i1 - i0) * NI + ei
            mj == (j1 - j0) * NJ + ej
        IN  /\ last.status = "ok"
            /\ last.res.shape = <<mi, mj, header[field].num_fields>>
            /\ \A x \in 0 .. mi - 1, y \in 0 .. mj - 1 :
                  LET i == Min(i0 + (x \div NI), i1 - 1)
                      j == Min(j0 + (y \div NJ), j1 - 1)
                  IN  last.res.data[<<x, y, 0>>] =
                          At(<<i, j, level, field>>).data[
                              <<x - (i - i0) * NI, y - (j - j0) * NJ, 0>>]

----------------------------------------------------------------------------
(* Properties of dump and load, checked under SpecDump *)

\* C14: the name of an index parses back to the index, for i and j of either
\* sign, and so a dump followed by a load gives a database with the same
\* block size and header that holds the same arrays at the same indices.
\* (Stated for a store in which every array has its expected shape.)
C14_DumpLoadRoundTrip ==
    (Loaded /\ WellShaped) =>
        /\ \A index \in DOMAIN patches :
              parse_index(to_string(index)) = [status |-> "ok", val |-> index]
        /\ last.status = "ok"
        /\ last.res.ni = NI /\ last.res.nj = NJ
        /\ last.res.header = header
        /\ last.res.patches = StoreView

----------------------------------------------------------------------------
(* Properties of the index arithmetic and of the transfer operators,       *)
(* checked under SpecTransfer                                               *)

\* C15: coarsen(i, j, level, f) is (floor(i/2), floor(j/2), level-1, f), for
\* negative i and j too (coarsen of i = -1 gives -1), and every child that
\* refine(parent) returns coarsens back to parent.
C15_CoarsenFloors ==
    /\ (last.op = "coarsen") =>
          last.res = <<last.index[1] \div 2, last.index[2] \div 2,
                       last.index[3] - 1, last.index[4]>>
    /\ (last.op = "refine") =>
          \A n \in 1 .. 4 : coarsen(last.res[n]) = last.index

----------------------------------------------------------------------------
(* Properties of the locator, checked under SpecLocate *)

\* the quadrant (qi, qj) of an array of block size, prolongated: cell (x, y)
\* holds the cell (qi*ni/2 + floor(x/2), qj*nj/2 + floor(y/2)) of the array
ProlongedQuadrant(A, qi, qj) ==
    [shape |-> <<NI, NJ, A.shape[3]>>,
     data |-> [c \in Cells(<<NI, NJ, A.shape[3]>>) |->
                  A.data[<<qi * (NI \div 2) + (c[1] \div 2),
                           qj * (NJ \div 2) + (c[2] \div 2), c[3]>>]]]

\* the child (2i+a, 2j+b, p+1, f) of an index
Child(index, a, b) == <<2 * index[1] + a, 2 * index[2] + b, index[3] + 1, index[4]>>

\* the cell (u, v, k) of the tile of the four children of an index, in which
\* child (a, b) occupies [a*ni : (a+1)*ni, b*nj : (b+1)*nj]
TileCell(index, u, v, k) ==
    At(Child(index, u \div NI, v \div NJ)).data[<<u % NI, v % NJ, k>>]

\* the mean of the cells (2x..2x+1, 2y..2y+1) of the tile of the children
RestrictedChildren(index) ==
    [shape |-> <<NI, NJ, num_fields(index)>>,
     data |-> [c \in Cells(<<NI, NJ, num_fields(index)>>) |->
                  DMul(DAdd(DAdd(DAdd(TileCell(index, 2 * c[1], 2 * c[2], c[3]),
                                      TileCell(index, 2 * c[1], 2 * c[2] + 1, c[3])),
                                 TileCell(index, 2 * c[1] + 1, 2 * c[2], c[3])),
                            TileCell(index, 2 * c[1] + 1, 2 * c[2] + 1, c[3])),
                       Quarter)]]

\* C16: locate applies its rules in strict priority and never raises: the
\* stored patch if index is stored; else the prolongated quadrant of the
\* parent coarsen(index) = (floor(i/2), floor(j/2), level-1) if that is
\* stored; else the restriction of the tile of the four children if they are
\* all stored; else the empty array. The store is unchanged.
C16_LocatePriority ==
    [][ (last'.op = "locate") =>
            /\ StoreView' = StoreView
            /\ last'.status = "ok"
            /\ last'.res =
                 IF Stored(last'.index) THEN At(last'.index)
                 ELSE IF Stored(FlooredParent(last'.index))
                 THEN ProlongedQuadrant(At(FlooredParent(last'.index)),
                                        last'.index[1] % 2, last'.index[2] % 2)
                 ELSE IF Children(last'.index) \subseteq DOMAIN patches
                 THEN RestrictedChildren(last'.index)
                 ELSE EmptyArray
      ]_vars

\* C17: when index (i, j, p, f) is absent and its parent
\* (floor(i/2), floor(j/2), p-1, f) is stored, locate returns without raising
\* an (ni, nj, K) array whose cell (x, y, k) is the parent's cell
\* (qi*ni/2 + floor(x/2), qj*nj/2 + floor(y/2), k), qi = i mod 2 and
\* qj = j mod 2 in {0, 1}, for i and j of either sign.
C17_ProlongedParent ==
    (Located /\ ~Stored(last.index) /\ Stored(FlooredParent(last.index))) =>
        /\ last.status = "ok"
        /\ last.res.shape = <<NI, NJ, num_fields(last.index)>>
        /\ \A x \in 0 .. NI - 1, y \in 0 .. NJ - 1 :
              last.res.data[<<x, y, 0>>] =
                  At(FlooredParent(last.index)).data[
                      <<(last.index[1] % 2) * (NI \div 2) + (x \div 2),
                        (last.index[2] % 2) * (NJ \div 2) + (y \div 2), 0>>]

\* C18: when index and its parent (floor(i/2), floor(j/2), p-1, f) are
\* absent and the four children (2i+a, 2j+b, p+1, f) are stored, locate
\* returns an (ni, nj, K) array whose cell (x, y, k) is the mean of the cells
\* (2x..2x+1, 2y..2y+1, k) of the tile of the children; when a child is
\* absent it returns the empty array.
C18_RestrictedChildren ==
    (Located /\ ~Stored(last.index) /\ ~Stored(FlooredParent(last.index))) =>
        /\ last.status = "ok"
        /\ IF \A a, b \in {0, 1} : Stored(Child(last.index, a, b))
           THEN /\ last.res.shape = <<NI, NJ, num_fields(last.index)>>
                /\ \A x \in 0 .. NI - 1, y \in 0 .. NJ - 1 :
                      last.res.data[<<x, y, 0>>] =
                          DMul(DAdd(DAdd(DAdd(TileCell(last.index, 2 * x, 2 * y, 0),
                                              TileCell(last.index, 2 * x, 2 * y + 1, 0)),
                                         TileCell(last.index, 2 * x + 1, 2 * y, 0)),
                                    TileCell(last.index, 2 * x + 1, 2 * y + 1, 0)),
                               Quarter)
           ELSE last.res = EmptyArray

\* C19: for an array A of shape (ni/2, nj/2, K) with ni and nj even,
\* prolongation(A) has shape (ni, nj, K) with every cell (2a+al, 2b+be) equal
\* to A[a, b], and restriction(prolongation(A)) equals A.
C19_RestrictionInvertsProlongation ==
    (last.op = "transfer") =>
        /\ last.status = "ok"
        /\ last.res.P.shape = <<last.args[1], last.args[2], last.res.A.shape[3]>>
        /\ \A c \in Cells(last.res.P.shape) :
              last.res.P.data[c] = last.res.A.data[<<c[1] \div 2, c[2] \div 2, c[3]>>]
        /\ last.res.R = last.res.A

\* C19 witness: the operators were applied, in a database of block size
\* (4, 4), to an array that holds different values in adjacent cells
C19_Witness ==
    /\ last.op = "transfer"
    /\ last.status = "ok"
    /\ last.args[1] = 4 /\ last.args[2] = 4
    /\ last.res.A.data[<<0, 0, 0>>] # last.res.A.data[<<0, 1, 0>>]
    /\ last.res.A.data[<<0, 0, 0>>] # last.res.A.data[<<1, 0, 0>>]
    /\ last.res.A.data[<<1, 1, 0>>] # last.res.A.data[<<1, 0, 0>>]
    /\ last.res.R = last.res.A

====
